---- MODULE Spec2Model ----
(***************************************************************************)
(* The hyperparameter sweep and the cleanup routine of the notebook        *)
(* tensorflow2-california-housing-regression-experiment.ipynb.             *)
(*                                                                         *)
(* Three specifications share the module:                                  *)
(*   SpecProduct  the cell that builds trial_hyperparameter_set, over all  *)
(*                small hyperparameter mappings;                           *)
(*   Spec         the sweep loop (one Trial and one training job per       *)
(*                combination) against the tracking and training services; *)
(*   SpecCleanup  cleanup(experiment) against the tracking service.        *)
(* The services are the environment: a remote call answers as the service  *)
(* rules say, or fails for a reason of its own (throttling, network).      *)
(***************************************************************************)
EXTENDS Integers, Sequences, FiniteSets, TLC

VARIABLES
    \* ---- notebook variables of the sweep cells
    hyperparam_options,        \* dict, in insertion order: <<[name, values], ...>>
    trial_hyperparameter_set,  \* list of dicts: each <<[name, value], ...>>
    pc,                        \* position of the sweep cells
    idx,                       \* position of the for loop's iterator (1-based)
    run_number,
    now,                       \* int(time.time()), whole seconds
    training_job_name,
    trial_name,
    experiment_config,
    \* ---- services, as the sweep sees them
    trials,                    \* names of the Trials of the experiment
    jobs,                      \* training jobs that ran: [name, trial]
    inFlight,                  \* fit() calls that have not returned yet
    \* ---- history of the sweep
    generated,                 \* per iteration: [combo, job, trial] names built
    created,                   \* Trials created: [combo, name]
    submitted,                 \* fit() calls made: [combo, job, trial]
    attempts,                  \* every remote call made: [op, combo]
    failedAt,                  \* combination whose step raised first, 0 if none
    \* ---- cleanup(experiment)
    cpc,                       \* position inside cleanup
    expExists,                 \* the experiment record exists
    ctrials,                   \* Trials of the experiment (ids)
    tcs,                       \* trial components that exist (ids)
    assoc,                     \* <<trial, component>> associations
    elsewhere,                 \* components also associated with a Trial of another experiment
    listedTrials,              \* experiment.list_trials(), as iterated
    ti,                        \* position in listedTrials
    listedTCs,                 \* trial.list_trial_components(), as iterated
    ci,                        \* position in listedTCs
    calls,                     \* remote calls of this run: [op, trial, tc, ok]
    otherFailed,               \* a call other than tc.delete failed in this run
    transient,                 \* some call of this run failed for the service's own reasons
    rerun,                     \* this is a second invocation after a completed one
    startTrials,               \* Trials the experiment had when this run began
    afterFirst                 \* service state when the first invocation returned

svars == <<hyperparam_options, trial_hyperparameter_set, pc, idx, run_number, now,
           training_job_name, trial_name, experiment_config, trials, jobs, inFlight,
           generated, created, submitted, attempts, failedAt>>

cvars == <<cpc, expExists, ctrials, tcs, assoc, elsewhere, listedTrials, ti,
           listedTCs, ci, calls, otherFailed, transient, rerun, startTrials,
           afterFirst>>

vars == <<svars, cvars>>

----------------------------------------------------------------------------
(* Bounds of the model *)

MaxParams == 2      \* SpecProduct: parameters in a mapping
MaxCand == 3        \* SpecProduct: candidates per parameter
MaxLR == 2          \* Spec: learning_rate candidates
MaxEp == 1          \* Spec: epochs candidates
MaxElapse == 1      \* Spec: whole seconds a blocking fit() may add to the clock
MaxTrials == 2      \* SpecCleanup: Trials of the experiment
MaxTCs == 2         \* SpecCleanup: trial components in the service

(* Program constants *)

SleepSecs == 2      \* time.sleep(2) between submissions

----------------------------------------------------------------------------
(* Python values and their str() *)

PyFloat(t) == [kind |-> "float", tenths |-> t]   \* a float with one decimal: t / 10
PyInt(n) == [kind |-> "int", tenths |-> 10 * n]

LearningRates == {PyFloat(1), PyFloat(9)}          \* 0.1, 0.9
EpochVals == {PyInt(100)}
ProductVals == {PyFloat(1), PyInt(100)}
ParamNames == <<"learning_rate", "epochs", "batch_size", "momentum">>

DigitChar == <<"0", "1", "2", "3", "4", "5", "6", "7", "8", "9">>

RECURSIVE Digits(_)
Digits(n) ==
    IF n < 10 THEN <<DigitChar[n + 1]>>
    ELSE Digits(n \div 10) \o <<DigitChar[(n % 10) + 1]>>

\* str(elm): "100" for an int, "0.1" for a float
PyStr(v) ==
    IF v.kind = "int" THEN Digits(v.tenths \div 10)
    ELSE Digits(v.tenths \div 10) \o <<".">> \o Digits(v.tenths % 10)

\* s.replace(".", "-")
ReplaceDot(s) == [i \in 1..Len(s) |-> IF s[i] = "." THEN "-" ELSE s[i]]

\* "-".join(parts)
RECURSIVE Join(_)
Join(parts) ==
    IF parts = <<>> THEN <<>>
    ELSE IF Len(parts) = 1 THEN parts[1]
    ELSE parts[1] \o <<"-">> \o Join(Tail(parts))

\* sub in s
Contains(s, sub) ==
    \E i \in 0..(Len(s) - Len(sub)) : SubSeq(s, i + 1, i + Len(sub)) = sub

SeqsUpTo(S, n) == UNION {[1..k -> S] : k \in 0..n}

----------------------------------------------------------------------------
(* The cell that builds trial_hyperparameter_set *)

\* one round of itertools.product: result = [x + [y] for x in result for y in pool]
Extend(result, pool) ==
    [k \in 1..(Len(result) * Len(pool)) |->
        result[((k - 1) \div Len(pool)) + 1] \o <<pool[((k - 1) % Len(pool)) + 1]>>]

RECURSIVE ProductFrom(_, _)
ProductFrom(result, pools) ==
    IF pools = <<>> THEN result
    ELSE ProductFrom(Extend(result, Head(pools)), Tail(pools))

\* zip(*pools): the i-th candidates together, as long as the shortest pool
ZipPools(pools) ==
    LET n == CHOOSE m \in 0..MaxCand + 1 :
                 /\ \A p \in 1..Len(pools) : m <= Len(pools[p])
                 /\ \E p \in 1..Len(pools) : m = Len(pools[p])
    IN [i \in 1..n |-> [p \in 1..Len(pools) |-> pools[p][i]]]

\* itertools.product(*hypvalues)
Product(pools) == ProductFrom(<< <<>> >>, pools)

\* dict(zip(hypnames, h))
DictZip(names, h) ==
    LET n == IF Len(names) < Len(h) THEN Len(names) ELSE Len(h)
    IN [i \in 1..n |-> [name |-> names[i], value |-> h[i]]]

hypnames == [i \in 1..Len(hyperparam_options) |-> hyperparam_options[i].name]
hypvalues == [i \in 1..Len(hyperparam_options) |-> hyperparam_options[i].values]

TrialHyperparameterSet ==
    LET combos == Product(hypvalues)
    IN [k \in 1..Len(combos) |-> DictZip(hypnames, combos[k])]

\* trial_hyp.values()
DictValues(d) == [i \in 1..Len(d) |-> d[i].value]

BuildSet ==
    /\ pc = "cell"
    /\ trial_hyperparameter_set' = TrialHyperparameterSet
    /\ run_number' = 1
    /\ idx' = 1
    /\ pc' = "for"
    /\ UNCHANGED <<hyperparam_options, now, training_job_name, trial_name,
                   experiment_config, trials, jobs, inFlight, generated, created,
                   submitted, attempts, failedAt>>
    /\ UNCHANGED cvars

----------------------------------------------------------------------------
(* The sweep loop *)

TrainingPrefix ==
    <<"t", "f", "2", "-", "c", "a", "l", "i", "f", "o", "r", "n", "i", "a", "-",
      "h", "o", "u", "s", "i", "n", "g", "-", "t", "r", "a", "i", "n", "i", "n",
      "g", "-">>
TrialPrefix == <<"t", "r", "i", "a", "l", "-">>

\* "-".join([str(elm).replace(".", "-") for elm in trial_hyp.values()])
HypAppendNoReplace(trial_hyp) ==
    LET vals == DictValues(trial_hyp)
    IN Join([i \in 1..Len(vals) |-> PyStr(vals[i])])

HypAppend(trial_hyp) ==
    LET vals == DictValues(trial_hyp)
    IN Join([i \in 1..Len(vals) |-> ReplaceDot(PyStr(vals[i]))])

TrainingJobName(hyp_append, time_append) ==
    TrainingPrefix \o hyp_append \o <<"-">> \o Digits(time_append)

TrialName(hyp_append, time_append) ==
    TrialPrefix \o TrainingPrefix \o hyp_append \o <<"-">> \o Digits(time_append)

\* the clock after time.sleep(2)
AfterSleepNone(t) == t

AfterSleep(t) == t + SleepSecs

\* no try/except in the loop: an exception leaves the cell
SweepOnFailureContinue == "sleep"

SweepOnFailure == "raised"

\* fit() blocks until the job has ended (wait defaults to True)
PcAfterFitCallAsync == "sleep"

PcAfterFitCall == "fitting"

Fail(op) ==
    /\ attempts' = Append(attempts, [op |-> op, combo |-> idx])
    /\ failedAt' = IF failedAt = 0 THEN idx ELSE failedAt
    /\ pc' = SweepOnFailure

\* for trial_hyp in trial_hyperparameter_set: ... names for this iteration
ForNext ==
    /\ pc = "for"
    /\ idx <= Len(trial_hyperparameter_set)
    /\ LET trial_hyp == trial_hyperparameter_set[idx]
           time_append == now
           hyp_append == HypAppend(trial_hyp)
       IN /\ training_job_name' = TrainingJobName(hyp_append, time_append)
          /\ trial_name' = TrialName(hyp_append, time_append)
          /\ generated' = Append(generated,
                 [combo |-> idx,
                  job |-> TrainingJobName(hyp_append, time_append),
                  trial |-> TrialName(hyp_append, time_append)])
    /\ pc' = "create"
    /\ UNCHANGED <<hyperparam_options, trial_hyperparameter_set, idx, run_number,
                   now, experiment_config, trials, jobs, inFlight, created,
                   submitted, attempts, failedAt>>
    /\ UNCHANGED cvars

ForDone ==
    /\ pc = "for"
    /\ idx > Len(trial_hyperparameter_set)
    /\ pc' = "done"
    /\ UNCHANGED <<hyperparam_options, trial_hyperparameter_set, idx, run_number,
                   now, training_job_name, trial_name, experiment_config, trials,
                   jobs, inFlight, generated, created, submitted, attempts,
                   failedAt>>
    /\ UNCHANGED cvars

\* Trial.create(trial_name=trial_name, ...) and the experiment_config built from it
TrialCreateOk ==
    /\ pc = "create"
    /\ trial_name \notin trials
    /\ trials' = trials \cup {trial_name}
    /\ created' = Append(created, [combo |-> idx, name |-> trial_name])
    /\ attempts' = Append(attempts, [op |-> "Trial.create", combo |-> idx])
    /\ experiment_config' = [TrialName |-> trial_name,
                             TrialComponentDisplayName |-> training_job_name]
    /\ pc' = "estimator"
    /\ UNCHANGED <<hyperparam_options, trial_hyperparameter_set, idx, run_number,
                   now, training_job_name, trial_name, jobs, inFlight, generated,
                   submitted, failedAt>>
    /\ UNCHANGED cvars

\* the service refuses the name (it is taken) or fails for its own reasons
TrialCreateRaise ==
    /\ pc = "create"
    /\ Fail("Trial.create")
    /\ UNCHANGED <<hyperparam_options, trial_hyperparameter_set, idx, run_number,
                   now, training_job_name, trial_name, experiment_config, trials,
                   jobs, inFlight, generated, created, submitted>>
    /\ UNCHANGED cvars

\* TensorFlow(..., role=sagemaker.get_execution_role(), ...)
EstimatorOk ==
    /\ pc = "estimator"
    /\ attempts' = Append(attempts, [op |-> "TensorFlow", combo |-> idx])
    /\ pc' = "fit"
    /\ UNCHANGED <<hyperparam_options, trial_hyperparameter_set, idx, run_number,
                   now, training_job_name, trial_name, experiment_config, trials,
                   jobs, inFlight, generated, created, submitted, failedAt>>
    /\ UNCHANGED cvars

EstimatorRaise ==
    /\ pc = "estimator"
    /\ Fail("TensorFlow")
    /\ UNCHANGED <<hyperparam_options, trial_hyperparameter_set, idx, run_number,
                   now, training_job_name, trial_name, experiment_config, trials,
                   jobs, inFlight, generated, created, submitted>>
    /\ UNCHANGED cvars

\* estimator.fit(inputs, job_name=training_job_name, experiment_config=...): the call
FitCall ==
    /\ pc = "fit"
    /\ inFlight' = inFlight \cup {training_job_name}
    /\ submitted' = Append(submitted,
           [combo |-> idx, job |-> training_job_name,
            trial |-> experiment_config.TrialName])
    /\ attempts' = Append(attempts, [op |-> "fit", combo |-> idx])
    /\ pc' = PcAfterFitCall
    /\ UNCHANGED <<hyperparam_options, trial_hyperparameter_set, idx, run_number,
                   now, training_job_name, trial_name, experiment_config, trials,
                   jobs, generated, created, failedAt>>
    /\ UNCHANGED cvars

\* ... its return, after the job has run for some time
FitReturn ==
    /\ pc = "fitting"
    /\ \E d \in 0..MaxElapse : now' = now + d
    /\ inFlight' = inFlight \ {training_job_name}
    /\ jobs' = jobs \cup {[name |-> training_job_name,
                           trial |-> experiment_config.TrialName]}
    /\ pc' = "sleep"
    /\ UNCHANGED <<hyperparam_options, trial_hyperparameter_set, idx, run_number,
                   training_job_name, trial_name, experiment_config, trials,
                   generated, created, submitted, attempts, failedAt>>
    /\ UNCHANGED cvars

\* ... or its exception
FitRaise ==
    /\ pc = "fitting"
    /\ inFlight' = inFlight \ {training_job_name}
    /\ failedAt' = IF failedAt = 0 THEN idx ELSE failedAt
    /\ pc' = SweepOnFailure
    /\ UNCHANGED <<hyperparam_options, trial_hyperparameter_set, idx, run_number,
                   now, training_job_name, trial_name, experiment_config, trials,
                   jobs, generated, created, submitted, attempts>>
    /\ UNCHANGED cvars

\* time.sleep(2); run_number = run_number + 1; and on to the next combination
Sleep ==
    /\ pc = "sleep"
    /\ now' = AfterSleep(now)
    /\ run_number' = run_number + 1
    /\ idx' = idx + 1
    /\ pc' = "for"
    /\ UNCHANGED <<hyperparam_options, trial_hyperparameter_set,
                   training_job_name, trial_name, experiment_config, trials, jobs,
                   inFlight, generated, created, submitted, attempts, failedAt>>
    /\ UNCHANGED cvars

----------------------------------------------------------------------------
(* Initial states *)

NoName == <<>>

SweepIdle ==
    /\ trial_hyperparameter_set = <<>>
    /\ pc = "cell"
    /\ idx = 0
    /\ run_number = 0
    /\ now = 0
    /\ training_job_name = NoName
    /\ trial_name = NoName
    /\ experiment_config = [TrialName |-> NoName, TrialComponentDisplayName |-> NoName]
    /\ trials = {}
    /\ jobs = {}
    /\ inFlight = {}
    /\ generated = <<>>
    /\ created = <<>>
    /\ submitted = <<>>
    /\ attempts = <<>>
    /\ failedAt = 0

CleanupIdle ==
    /\ cpc = "idle"
    /\ expExists = TRUE
    /\ ctrials = {}
    /\ tcs = {}
    /\ assoc = {}
    /\ elsewhere = {}
    /\ listedTrials = <<>>
    /\ ti = 0
    /\ listedTCs = <<>>
    /\ ci = 0
    /\ calls = <<>>
    /\ otherFailed = FALSE
    /\ transient = FALSE
    /\ rerun = FALSE
    /\ startTrials = {}
    /\ afterFirst = <<>>

\* every mapping of 1..MaxParams parameters to candidate lists of up to MaxCand values
InitProduct ==
    /\ \E n \in 1..MaxParams :
         \E pools \in [1..n -> SeqsUpTo(ProductVals, MaxCand)] :
            hyperparam_options =
                [i \in 1..n |-> [name |-> ParamNames[i], values |-> pools[i]]]
    /\ SweepIdle
    /\ CleanupIdle

NextProduct == BuildSet

SpecProduct == InitProduct /\ [][NextProduct]_vars

\* hyperparam_options = {"learning_rate": [...], "epochs": [...]}
Init ==
    /\ \E lr \in SeqsUpTo(LearningRates, MaxLR) :
         \E ep \in SeqsUpTo(EpochVals, MaxEp) :
            hyperparam_options = <<[name |-> "learning_rate", values |-> lr],
                                   [name |-> "epochs", values |-> ep]>>
    /\ SweepIdle
    /\ CleanupIdle

Next ==
    \/ BuildSet
    \/ ForNext
    \/ ForDone
    \/ TrialCreateOk
    \/ TrialCreateRaise
    \/ EstimatorOk
    \/ EstimatorRaise
    \/ FitCall
    \/ FitReturn
    \/ FitRaise
    \/ Sleep

Spec == Init /\ [][Next]_vars

----------------------------------------------------------------------------
(* cleanup(experiment) *)

RECURSIVE SortedSeq(_)
SortedSeq(S) ==
    IF S = {} THEN <<>>
    ELSE LET m == CHOOSE x \in S : \A y \in S : x <= y
         IN <<m>> \o SortedSeq(S \ {m})

Ops == {"list_trials", "trial_load", "list_tcs", "tc_load", "detach",
        "tc_delete", "trial_delete", "exp_delete"}
Finished == {"returned", "raised"}

ServiceState == <<expExists, ctrials, tcs, assoc, elsewhere>>

curTrial == IF ti \in 1..Len(listedTrials) THEN listedTrials[ti] ELSE 0
curTC == IF ci \in 1..Len(listedTCs) THEN listedTCs[ci] ELSE 0

\* the tracking service's rules: would it carry the call out?
Accepts(op) ==
    CASE op = "list_trials" -> expExists
      [] op = "trial_load" -> curTrial \in ctrials
      [] op = "list_tcs" -> curTrial \in ctrials
      [] op = "tc_load" -> curTC \in tcs
      [] op = "detach" -> curTC \in tcs /\ curTrial \in ctrials
      [] op = "tc_delete" ->
            /\ curTC \in tcs
            /\ curTC \notin elsewhere
            /\ \A t \in ctrials : <<t, curTC>> \notin assoc
      [] op = "trial_delete" ->
            /\ curTrial \in ctrials
            /\ \A c \in tcs : <<curTrial, c>> \notin assoc
      [] op = "exp_delete" -> expExists /\ ctrials = {}

\* try: tc.delete() / except: continue -- nothing else is guarded
OnFailureNoTry(op) == "raise"

OnFailureWideTry(op) == IF op \in {"detach", "tc_delete"} THEN "continue" ELSE "raise"

OnFailureSwallowAll(op) == IF op = "tc_delete" THEN "continue" ELSE "return"

OnFailure(op) == IF op = "tc_delete" THEN "continue" ELSE "raise"

\* experiment.delete() follows the loop over the trials
PcAfterTrialLoopReturn == "returned"

PcAfterTrialLoop == "exp_delete"

\* for trial_summary in experiment.list_trials(): the i-th round, or the end
TrialLoopPc(listed, i) == IF i <= Len(listed) THEN "trial_load" ELSE PcAfterTrialLoop

\* for trial_component_summary in trial.list_trial_components(): likewise
TcLoopPc(listed, i) == IF i <= Len(listed) THEN "tc_load" ELSE "trial_delete"

\* trial.remove_trial_component(tc) follows TrialComponent.load
PcAfterTcLoadDelete == "tc_delete"

PcAfterTcLoad == "detach"

Call(op, ok, listed) ==
    [op |-> op, trial |-> curTrial, tc |-> curTC, ok |-> ok, listed |-> listed]

\* cleanup(california_housing_experiment); after a completed run, once more
Invoke ==
    /\ \/ cpc = "idle"
       \/ cpc = "returned" /\ ~rerun
    /\ rerun' = (cpc = "returned")
    /\ afterFirst' = IF cpc = "returned" THEN ServiceState ELSE afterFirst
    /\ startTrials' = ctrials
    /\ calls' = <<>>
    /\ otherFailed' = FALSE
    /\ transient' = FALSE
    /\ listedTrials' = <<>>
    /\ listedTCs' = <<>>
    /\ ti' = 0
    /\ ci' = 0
    /\ cpc' = "list_trials"
    /\ UNCHANGED <<expExists, ctrials, tcs, assoc, elsewhere>>
    /\ UNCHANGED svars

\* experiment.list_trials(); for an experiment that is gone the service
\* either fails the call (CallFails) or lists nothing
ListTrials ==
    /\ cpc = "list_trials"
    /\ listedTrials' = SortedSeq(ctrials)
    /\ ti' = 1
    /\ calls' = Append(calls, Call("list_trials", TRUE, SortedSeq(ctrials)))
    /\ cpc' = TrialLoopPc(SortedSeq(ctrials), 1)
    /\ UNCHANGED <<expExists, ctrials, tcs, assoc, elsewhere, listedTCs, ci,
                   otherFailed, transient, rerun, startTrials, afterFirst>>
    /\ UNCHANGED svars

\* Trial.load(trial_name=trial_summary.trial_name)
TrialLoad ==
    /\ cpc = "trial_load"
    /\ Accepts("trial_load")
    /\ calls' = Append(calls, Call("trial_load", TRUE, <<>>))
    /\ cpc' = "list_tcs"
    /\ UNCHANGED <<expExists, ctrials, tcs, assoc, elsewhere, listedTrials, ti,
                   listedTCs, ci, otherFailed, transient, rerun, startTrials,
                   afterFirst>>
    /\ UNCHANGED svars

\* trial.list_trial_components()
ListTCs ==
    /\ cpc = "list_tcs"
    /\ Accepts("list_tcs")
    /\ LET listed == SortedSeq({c \in tcs : <<curTrial, c>> \in assoc})
       IN /\ listedTCs' = listed
          /\ calls' = Append(calls, Call("list_tcs", TRUE, listed))
          /\ cpc' = TcLoopPc(listed, 1)
    /\ ci' = 1
    /\ UNCHANGED <<expExists, ctrials, tcs, assoc, elsewhere, listedTrials, ti,
                   otherFailed, transient, rerun, startTrials, afterFirst>>
    /\ UNCHANGED svars

\* TrialComponent.load(trial_component_name=...)
TcLoad ==
    /\ cpc = "tc_load"
    /\ Accepts("tc_load")
    /\ calls' = Append(calls, Call("tc_load", TRUE, <<>>))
    /\ cpc' = PcAfterTcLoad
    /\ UNCHANGED <<expExists, ctrials, tcs, assoc, elsewhere, listedTrials, ti,
                   listedTCs, ci, otherFailed, transient, rerun, startTrials,
                   afterFirst>>
    /\ UNCHANGED svars

\* trial.remove_trial_component(tc)
Detach ==
    /\ cpc = "detach"
    /\ Accepts("detach")
    /\ assoc' = assoc \ {<<curTrial, curTC>>}
    /\ calls' = Append(calls, Call("detach", TRUE, <<>>))
    /\ cpc' = "tc_delete"
    /\ UNCHANGED <<expExists, ctrials, tcs, elsewhere, listedTrials, ti,
                   listedTCs, ci, otherFailed, transient, rerun, startTrials,
                   afterFirst>>
    /\ UNCHANGED svars

\* tc.delete() succeeds; time.sleep(0.5); next component
TcDelete ==
    /\ cpc = "tc_delete"
    /\ Accepts("tc_delete")
    /\ tcs' = tcs \ {curTC}
    /\ calls' = Append(calls, Call("tc_delete", TRUE, <<>>))
    /\ ci' = ci + 1
    /\ cpc' = TcLoopPc(listedTCs, ci + 1)
    /\ UNCHANGED <<expExists, ctrials, assoc, elsewhere, listedTrials, ti,
                   listedTCs, otherFailed, transient, rerun, startTrials,
                   afterFirst>>
    /\ UNCHANGED svars

\* trial.delete(); next trial
TrialDelete ==
    /\ cpc = "trial_delete"
    /\ Accepts("trial_delete")
    /\ ctrials' = ctrials \ {curTrial}
    /\ calls' = Append(calls, Call("trial_delete", TRUE, <<>>))
    /\ ti' = ti + 1
    /\ cpc' = TrialLoopPc(listedTrials, ti + 1)
    /\ UNCHANGED <<expExists, tcs, assoc, elsewhere, listedTrials, listedTCs, ci,
                   otherFailed, transient, rerun, startTrials, afterFirst>>
    /\ UNCHANGED svars

\* experiment.delete()
ExpDelete ==
    /\ cpc = "exp_delete"
    /\ Accepts("exp_delete")
    /\ expExists' = FALSE
    /\ calls' = Append(calls, Call("exp_delete", TRUE, <<>>))
    /\ cpc' = "returned"
    /\ UNCHANGED <<ctrials, tcs, assoc, elsewhere, listedTrials, ti, listedTCs,
                   ci, otherFailed, transient, rerun, startTrials, afterFirst>>
    /\ UNCHANGED svars

\* the call at hand raises: the service refuses it, or fails for its own reasons
CallFails ==
    /\ cpc \in Ops
    /\ calls' = Append(calls, Call(cpc, FALSE, <<>>))
    /\ transient' = (transient \/ Accepts(cpc))
    /\ otherFailed' = (otherFailed \/ cpc # "tc_delete")
    /\ CASE OnFailure(cpc) = "continue" ->
                /\ ci' = ci + 1
                /\ cpc' = TcLoopPc(listedTCs, ci + 1)
         [] OnFailure(cpc) = "return" ->
                /\ ci' = ci
                /\ cpc' = "returned"
         [] OTHER ->
                /\ ci' = ci
                /\ cpc' = "raised"
    /\ UNCHANGED <<expExists, ctrials, tcs, assoc, elsewhere, listedTrials, ti,
                   listedTCs, rerun, startTrials, afterFirst>>
    /\ UNCHANGED svars

\* an experiment with up to MaxTrials trials and up to MaxTCs trial components,
\* each component associated with at least one of the trials
InitCleanup ==
    /\ hyperparam_options = <<>>
    /\ SweepIdle
    /\ cpc = "idle"
    /\ expExists = TRUE
    /\ \E n \in 0..MaxTrials : ctrials = 1..n
    /\ \E m \in 0..MaxTCs : tcs = 1..m
    /\ assoc \in SUBSET (ctrials \X tcs)
    /\ \A c \in tcs : \E t \in ctrials : <<t, c>> \in assoc
    /\ elsewhere \in SUBSET tcs
    /\ listedTrials = <<>>
    /\ ti = 0
    /\ listedTCs = <<>>
    /\ ci = 0
    /\ calls = <<>>
    /\ otherFailed = FALSE
    /\ transient = FALSE
    /\ rerun = FALSE
    /\ startTrials = {}
    /\ afterFirst = <<>>

NextCleanup ==
    \/ Invoke
    \/ ListTrials
    \/ TrialLoad
    \/ ListTCs
    \/ TcLoad
    \/ Detach
    \/ TcDelete
    \/ TrialDelete
    \/ ExpDelete
    \/ CallFails

SpecCleanup == InitCleanup /\ [][NextCleanup]_vars

----------------------------------------------------------------------------
(* Properties of the sweep *)

RECURSIVE LenProduct(_)
LenProduct(pools) ==
    IF pools = <<>> THEN 1 ELSE Len(Head(pools)) * LenProduct(Tail(pools))

\* C1: once the cell has run, trial_hyperparameter_set holds as many
\* combinations as the product of the lengths of the candidate lists.
C1_CombinationCount ==
    pc # "cell" => Len(trial_hyperparameter_set) = LenProduct(hypvalues)

\* 3 learning rates and 2 epoch values give 6 combinations
C1_Witness ==
    /\ pc # "cell"
    /\ Len(hypvalues) = 2
    /\ Len(hypvalues[1]) = 3
    /\ Len(hypvalues[2]) = 2
    /\ Len(trial_hyperparameter_set) = 6

\* C2: within one sweep run no two iterations build the same training job
\* name, and no two build the same trial name, even for equal combinations.
C2_UniqueNames ==
    \A i, j \in 1..Len(generated) :
        i # j => /\ generated[i].job # generated[j].job
                 /\ generated[i].trial # generated[j].trial

\* two iterations whose combinations hold the same values have built their names
C2_Witness ==
    \E i, j \in 1..Len(generated) :
        /\ i < j
        /\ trial_hyperparameter_set[i] = trial_hyperparameter_set[j]
        /\ generated[i].trial # generated[j].trial

\* C3: a sweep that ends without a failure has created exactly one Trial per
\* combination, and the name of each contains str(value).replace(".", "-") for
\* every value of its own combination.
C3_OneTrialPerCombination ==
    pc = "done" =>
        /\ Len(created) = Len(trial_hyperparameter_set)
        /\ Cardinality(trials) = Len(trial_hyperparameter_set)
        /\ \A k \in 1..Len(created) :
              /\ created[k].combo = k
              /\ created[k].name \in trials
              /\ \A p \in 1..Len(trial_hyperparameter_set[k]) :
                    Contains(created[k].name,
                             ReplaceDot(PyStr(trial_hyperparameter_set[k][p].value)))

\* {"learning_rate": [0.1, 0.9], "epochs": [100]}: 2 trials, distinct names,
\* each with "100", one with "0-1" and one with "0-9"
C3_Witness ==
    /\ pc = "done"
    /\ hypvalues = << <<PyFloat(1), PyFloat(9)>>, <<PyInt(100)>> >>
    /\ Cardinality(trials) = 2
    /\ Len(created) = 2
    /\ created[1].name # created[2].name
    /\ Contains(created[1].name, <<"0", "-", "1">>)
    /\ Contains(created[2].name, <<"0", "-", "9">>)
    /\ \A k \in 1..2 : Contains(created[k].name, <<"1", "0", "0">>)

\* C7: once a step has raised for a combination the sweep has stopped: the
\* failed call is the last one made, nothing was created or submitted for a
\* later combination, and no call is ever made twice for a combination.
C7_FailureStopsSweep ==
    /\ \A i, j \in 1..Len(attempts) : i # j => attempts[i] # attempts[j]
    /\ failedAt # 0 =>
          /\ pc = "raised"
          /\ inFlight = {}
          /\ attempts # <<>>
          /\ attempts[Len(attempts)].combo = failedAt
          /\ \A k \in 1..Len(attempts) : attempts[k].combo <= failedAt
          /\ \A k \in 1..Len(created) : created[k].combo <= failedAt
          /\ \A k \in 1..Len(submitted) : submitted[k].combo <= failedAt

\* a job submission raised while later combinations were still to come
C7_Witness ==
    /\ pc = "raised"
    /\ failedAt # 0
    /\ failedAt < Len(trial_hyperparameter_set)
    /\ attempts[Len(attempts)].op = "fit"

\* C9: combinations are processed one at a time: the k-th submission follows
\* the k-th Trial's creation and names that Trial, a Trial is created only
\* when no submission is in flight, and at most one submission is in flight.
C9_OneAtATime ==
    /\ Cardinality(inFlight) <= 1
    /\ Len(submitted) <= Len(created)
    /\ Len(created) <= Len(submitted) + 1
    /\ \A k \in 1..Len(submitted) :
          /\ submitted[k].combo = created[k].combo
          /\ submitted[k].trial = created[k].name
    /\ Len(created) > Len(submitted) => inFlight = {}

\* the second combination's submission is in flight
C9_Witness ==
    /\ Len(submitted) = 2
    /\ inFlight = {submitted[2].job}
    /\ submitted[2].trial = created[2].name

----------------------------------------------------------------------------
(* Properties of cleanup *)

\* what trial.list_trial_components() returned for trial t in this run
ListedTCsOf(t) ==
    LET ks == {k \in 1..Len(calls) :
                  calls[k].op = "list_tcs" /\ calls[k].ok /\ calls[k].trial = t}
    IN IF ks = {} THEN <<>> ELSE calls[CHOOSE k \in ks : TRUE].listed

LastCall == calls[Len(calls)]

\* C4: a failed tc.delete() does not end cleanup: the next step is the load of
\* the next listed component of the same trial, or that trial's deletion after
\* the last one; and a run in which nothing else fails returns with every
\* trial and the experiment deleted.
C4_DeleteFailureTolerated ==
    /\ \A k \in 1..Len(calls) :
          (calls[k].op = "tc_delete" /\ ~calls[k].ok) =>
              LET t == calls[k].trial
                  L == ListedTCsOf(t)
                  p == CHOOSE q \in 1..Len(L) : L[q] = calls[k].tc
              IN IF k = Len(calls)
                 THEN /\ curTrial = t
                      /\ IF p < Len(L)
                         THEN cpc = "tc_load" /\ curTC = L[p + 1]
                         ELSE cpc = "trial_delete"
                 ELSE /\ calls[k + 1].trial = t
                      /\ IF p < Len(L)
                         THEN calls[k + 1].op = "tc_load" /\ calls[k + 1].tc = L[p + 1]
                         ELSE calls[k + 1].op = "trial_delete"
    /\ (cpc \in Finished /\ ~otherFailed) =>
          /\ cpc = "returned"
          /\ ~expExists
          /\ ctrials = {}

\* a run with a failed component deletion that went on to delete two trials
\* and the experiment
C4_Witness ==
    /\ cpc = "returned"
    /\ ~rerun
    /\ ~expExists
    /\ Cardinality(startTrials) = 2
    /\ \E k \in 1..Len(calls) :
          /\ calls[k].op = "tc_delete"
          /\ ~calls[k].ok
          /\ calls[k + 1].op = "tc_load"

\* C5: cleanup of an existing experiment with zero trials, the service
\* carrying out what it can, returns normally with the experiment deleted.
C5_ZeroTrials ==
    (cpc \in Finished /\ ~rerun /\ startTrials = {} /\ ~transient) =>
        /\ cpc = "returned"
        /\ ~expExists

C5_Witness ==
    /\ cpc = "returned"
    /\ ~rerun
    /\ startTrials = {}
    /\ ~transient
    /\ ~expExists
    /\ Len(calls) = 2

\* C6 as claimed: a second invocation after a completed one returns normally
\* and leaves the service as the first left it.
C6_Original ==
    (rerun /\ cpc \in Finished /\ ~transient) =>
        /\ cpc = "returned"
        /\ ServiceState = afterFirst

\* C6 as amended: a second invocation after a completed one never changes the
\* service, and ends by raising, at list_trials or at experiment.delete(),
\* because the experiment is gone.
C6_SecondCallRaises ==
    rerun =>
        /\ ServiceState = afterFirst
        /\ cpc \in Finished =>
              /\ cpc = "raised"
              /\ ~LastCall.ok
              /\ LastCall.op \in {"list_trials", "exp_delete"}

\* the second invocation listed nothing and failed at experiment.delete()
C6_Witness ==
    /\ rerun
    /\ cpc = "raised"
    /\ ~transient
    /\ LastCall.op = "exp_delete"

\* C8: in a run, trial.delete() is called only after every component listed
\* for the trial was detached from it, experiment.delete() only after every
\* listed trial was deleted, and tc.delete() only after the component was
\* detached from the trial at hand.
C8_CleanupOrder ==
    \A k \in 1..Len(calls) :
        /\ calls[k].op = "trial_delete" =>
              \E j \in 1..(k - 1) :
                 /\ calls[j].op = "list_tcs"
                 /\ calls[j].ok
                 /\ calls[j].trial = calls[k].trial
                 /\ \A p \in 1..Len(calls[j].listed) :
                       \E d \in (j + 1)..(k - 1) :
                          /\ calls[d].op = "detach"
                          /\ calls[d].ok
                          /\ calls[d].trial = calls[k].trial
                          /\ calls[d].tc = calls[j].listed[p]
        /\ calls[k].op = "exp_delete" =>
              \E j \in 1..(k - 1) :
                 /\ calls[j].op = "list_trials"
                 /\ calls[j].ok
                 /\ \A p \in 1..Len(calls[j].listed) :
                       \E d \in (j + 1)..(k - 1) :
                          /\ calls[d].op = "trial_delete"
                          /\ calls[d].ok
                          /\ calls[d].trial = calls[j].listed[p]
        /\ calls[k].op = "tc_delete" =>
              \E d \in 1..(k - 1) :
                 /\ calls[d].op = "detach"
                 /\ calls[d].ok
                 /\ calls[d].trial = calls[k].trial
                 /\ calls[d].tc = calls[k].tc

\* a completed run over two trials, one of them with two components
C8_Witness ==
    /\ cpc = "returned"
    /\ ~rerun
    /\ LastCall.op = "exp_delete"
    /\ Cardinality(startTrials) = 2
    /\ \E k \in 1..Len(calls) :
          calls[k].op = "list_tcs" /\ Len(calls[k].listed) = 2

\* C10: a failure of any call but tc.delete() is the last call of the run and
\* leaves cleanup raised; cleanup is raised only by such a failure; and the
\* experiment is deleted only by a run in which no such call failed.
C10_OtherFailuresPropagate ==
    /\ \A k \in 1..Len(calls) :
          (~calls[k].ok /\ calls[k].op # "tc_delete") =>
              k = Len(calls) /\ cpc = "raised"
    /\ cpc = "raised" =>
          /\ calls # <<>>
          /\ ~LastCall.ok
          /\ LastCall.op # "tc_delete"
    /\ (calls # <<>> /\ LastCall.op = "exp_delete" /\ LastCall.ok) =>
          \A k \in 1..Len(calls) : ~calls[k].ok => calls[k].op = "tc_delete"
    /\ (otherFailed /\ ~rerun) => expExists

\* a detach failed after an earlier component deletion had failed and been
\* passed over; the experiment is still there
C10_Witness ==
    /\ cpc = "raised"
    /\ ~rerun
    /\ expExists
    /\ LastCall.op = "detach"
    /\ \E k \in 1..Len(calls) : calls[k].op = "tc_delete" /\ ~calls[k].ok

====
